---- MODULE Spec2Model ----
(***************************************************************************)
(* State-machine model of the SSMS timetable backend (backend/server.py):  *)
(* the users, schedules, changelogs and settings tables of the SQLite      *)
(* file, the request handlers that read and write them, and the startup    *)
(* sequence that seeds the demo data.                                      *)
(*                                                                         *)
(* Python str values are modelled as sequences of one-character strings,   *)
(* so that sanitize_input and the "subject - class_name" formatting are    *)
(* computed rather than assumed.  uuid4() is modelled as the least id not  *)
(* stored anywhere in the database (ids are opaque: only equality counts). *)
(***************************************************************************)
EXTENDS Integers, Sequences, FiniteSets, TLC

VARIABLES users, schedules, changelogs, settings, boot, last, handled, workers, writer, conn,
          requests, clock, admitted, admitted_logins

vars == <<users, schedules, changelogs, settings, boot, last, handled, workers, writer, conn,
          requests, clock, admitted, admitted_logins>>

(***************************************************************************)
(* Bounds of the model                                                     *)
(***************************************************************************)
NumDemoTeachers == 2
DemoRows == 1
MaxPeriod == 2
MaxRequests == 2
MaxCsvRows == 2
\* the clock of the rate limiter runs to MaxClock seconds in steps of TickSeconds
MaxClock == 60
\* the rows a collection of the SQLite adapter starts with are among MaxRows
MaxRows == 5
TickSeconds == 30

(***************************************************************************)
(* Text literals                                                           *)
(***************************************************************************)
Monday == <<"M", "o", "n", "d", "a", "y">>
Tuesday == <<"T", "u", "e", "s", "d", "a", "y">>
Wednesday == <<"W", "e", "d", "n", "e", "s", "d", "a", "y">>
Thursday == <<"T", "h", "u", "r", "s", "d", "a", "y">>
Friday == <<"F", "r", "i", "d", "a", "y">>
admin123 == <<"a", "d", "m", "i", "n", "1", "2", "3">>
Administrator == <<"A", "d", "m", "i", "n", "i", "s", "t", "r", "a", "t", "o", "r">>
t_sagnik == <<"t", "_", "s", "a", "g", "n", "i", "k">>
SagnikSir == <<"S", "a", "g", "n", "i", "k", " ", "S", "i", "r">>
t_nadeem == <<"t", "_", "n", "a", "d", "e", "e", "m">>
NadeemSir == <<"N", "a", "d", "e", "e", "m", " ", "S", "i", "r">>
t_prinshu == <<"t", "_", "p", "r", "i", "n", "s", "h", "u">>
PrinshuSir == <<"P", "r", "i", "n", "s", "h", "u", " ", "S", "i", "r">>
t_abhishek == <<"t", "_", "a", "b", "h", "i", "s", "h", "e", "k">>
AbhishekSir == <<"A", "b", "h", "i", "s", "h", "e", "k", " ", "S", "i", "r">>
Mathematics == <<"M", "a", "t", "h", "e", "m", "a", "t", "i", "c", "s">>
ComputerScience == <<"C", "o", "m", "p", "u", "t", "e", "r", " ", "S", "c", "i", "e", "n", "c", "e">>
Physics == <<"P", "h", "y", "s", "i", "c", "s">>
EnglishSubject == <<"E", "n", "g", "l", "i", "s", "h">>
Grammar == <<"G", "r", "a", "m", "m", "a", "r">>
Grade10A == <<"G", "r", "a", "d", "e", " ", "1", "0", "A">>
Grade10B == <<"G", "r", "a", "d", "e", " ", "1", "0", "B">>

(***************************************************************************)
(* sanitize_input                                                          *)
(***************************************************************************)
MaxTextLen == 200

RECURSIVE Flatten(_)
Flatten(ss) == IF ss = <<>> THEN <<>> ELSE Head(ss) \o Flatten(Tail(ss))

\* re.sub(r'[<>]', '', text)
RemoveAngle(text) == SelectSeq(text, LAMBDA c : c \notin {"<", ">"})

\* html.escape(text), quote=True
EscapeChar(c) ==
    CASE c = "&" -> <<"&", "a", "m", "p", ";">>
      [] c = "<" -> <<"&", "l", "t", ";">>
      [] c = ">" -> <<"&", "g", "t", ";">>
      [] c = "\"" -> <<"&", "q", "u", "o", "t", ";">>
      [] c = "'" -> <<"&", "#", "x", "2", "7", ";">>
      [] OTHER -> <<c>>

HtmlEscape(text) == Flatten([i \in 1..Len(text) |-> EscapeChar(text[i])])

\* re.sub(r'(--|#|/\*|\*/)', '', text): leftmost matches, one pass
RECURSIVE RemoveSqlPatterns(_)
RemoveSqlPatterns(text) ==
    IF text = <<>> THEN <<>>
    ELSE IF Len(text) >= 2 /\ SubSeq(text, 1, 2) \in {<<"-", "-">>, <<"/", "*">>, <<"*", "/">>}
         THEN RemoveSqlPatterns(SubSeq(text, 3, Len(text)))
    ELSE IF Head(text) = "#"
         THEN RemoveSqlPatterns(Tail(text))
    ELSE <<Head(text)>> \o RemoveSqlPatterns(Tail(text))

Whitespace == {" ", "\t", "\n", "\r"}

RECURSIVE LStrip(_)
LStrip(text) ==
    IF text # <<>> /\ Head(text) \in Whitespace THEN LStrip(Tail(text)) ELSE text

RECURSIVE RStrip(_)
RStrip(text) ==
    IF text # <<>> /\ text[Len(text)] \in Whitespace
    THEN RStrip(SubSeq(text, 1, Len(text) - 1)) ELSE text

\* str.strip()
Strip(text) == RStrip(LStrip(text))

Truncate(text) == IF Len(text) > MaxTextLen THEN SubSeq(text, 1, MaxTextLen) ELSE text

sanitize_input(text) ==
    IF text = <<>> THEN text
    ELSE Truncate(Strip(RemoveSqlPatterns(HtmlEscape(RemoveAngle(text)))))

(***************************************************************************)
(* Identifiers and rows                                                    *)
(***************************************************************************)
UsedIds(us, ss, cs) ==
    {u.id : u \in us} \cup {s.id : s \in ss}
        \cup {cs[i].id : i \in 1..Len(cs)} \cup {cs[i].schedule_id : i \in 1..Len(cs)}

\* uuid.uuid4(): an id distinct from every id in `used`
uuid4(used) == CHOOSE n \in 1..(Cardinality(used) + 1) :
                 /\ n \notin used
                 /\ \A m \in 1..(n - 1) : m \in used

User(id, username, name, role) ==
    [id |-> id, username |-> username, name |-> name, role |-> role]

ScheduleEntry(id, teacher_id, teacher_name, day, period, subject, class_name) ==
    [id |-> id, teacher_id |-> teacher_id, teacher_name |-> teacher_name,
     day |-> day, period |-> period, subject |-> subject, class_name |-> class_name]

\* variant: the period is left out of the WHERE clause
ClassMatches_AnyPeriod(ss, day, period, class_name) ==
    {s \in ss : s.day = day /\ s.class_name = class_name}

\* SELECT COUNT(*) FROM schedules WHERE day = ? AND period = ? AND class_name = ?
ClassMatches(ss, day, period, class_name) ==
    {s \in ss : s.day = day /\ s.period = period /\ s.class_name = class_name}

\* variant: the WHERE clause compares the id column instead of teacher_id
TeacherMatches_WrongColumn(ss, day, period, teacher_id) ==
    {s \in ss : s.day = day /\ s.period = period /\ s.id = teacher_id}

\* SELECT COUNT(*) FROM schedules WHERE day = ? AND period = ? AND teacher_id = ?
TeacherMatches(ss, day, period, teacher_id) ==
    {s \in ss : s.day = day /\ s.period = period /\ s.teacher_id = teacher_id}

(***************************************************************************)
(* Demo data                                                               *)
(***************************************************************************)
demo_teachers ==
    << [username |-> t_sagnik, name |-> SagnikSir],
       [username |-> t_nadeem, name |-> NadeemSir],
       [username |-> t_prinshu, name |-> PrinshuSir],
       [username |-> t_abhishek, name |-> AbhishekSir] >>

DemoRow(day, period, subject, class_name) ==
    [day |-> day, period |-> period, subject |-> subject, class_name |-> class_name]

\* the first rows of each teacher's template
demo_schedules(name) ==
    CASE name = SagnikSir ->
           << DemoRow(Monday, 1, Mathematics, Grade10A), DemoRow(Monday, 2, Mathematics, Grade10B) >>
      [] name = NadeemSir ->
           << DemoRow(Monday, 1, ComputerScience, Grade10A), DemoRow(Monday, 2, ComputerScience, Grade10B) >>
      [] name = PrinshuSir ->
           << DemoRow(Monday, 1, Mathematics, Grade10A), DemoRow(Monday, 2, Physics, Grade10B) >>
      [] name = AbhishekSir ->
           << DemoRow(Monday, 1, EnglishSubject, Grade10A), DemoRow(Monday, 2, Grammar, Grade10B) >>
      [] OTHER -> << >>

DemoTemplate(name) ==
    LET rows == demo_schedules(name)
    IN  SubSeq(rows, 1, IF Len(rows) < DemoRows THEN Len(rows) ELSE DemoRows)

(***************************************************************************)
(* SQLite connections.  A handler body has no suspension point, so within  *)
(* one server process it runs to completion.  A connection sees the        *)
(* committed file plus its own uncommitted writes; the first INSERT,       *)
(* UPDATE or DELETE of a connection takes the file's write lock, and a     *)
(* second connection that tries to write while the lock is held gets       *)
(* "database is locked" once the busy timeout has passed.                  *)
(***************************************************************************)
RECURSIVE SetToSeqById(_)
SetToSeqById(S) ==
    IF S = {} THEN <<>>
    ELSE LET x == CHOOSE y \in S : \A z \in S : y.id <= z.id
         IN  <<x>> \o SetToSeqById(S \ {x})

\* the rows load_demo_schedules builds: one per template row of each teacher
DemoRowsFor(teachers) ==
    Flatten([i \in 1..Len(teachers) |->
               [j \in 1..Len(DemoTemplate(teachers[i].name)) |->
                  [teacher |-> teachers[i], row |-> DemoTemplate(teachers[i].name)[j]]]])

RECURSIVE InsertDemoRows(_, _, _)
InsertDemoRows(rows, ss, used) ==
    IF rows = <<>> THEN ss
    ELSE LET id == uuid4(used)
             r  == Head(rows)
             e  == ScheduleEntry(id, r.teacher.id, r.teacher.name, r.row.day,
                                 r.row.period, r.row.subject, r.row.class_name)
         IN  InsertDemoRows(Tail(rows), ss \cup {e}, used \cup {id})

\* load_demo_schedules() on its own connection: us, ss are the committed
\* tables, locked says whether another connection holds the write lock
load_demo_schedules(us, ss, cs, locked, used) ==
    LET teachers == SetToSeqById({u \in us : u.role = "teacher"})
        rows     == DemoRowsFor(teachers)
    IN  IF rows = <<>> THEN [ok |-> TRUE, schedules |-> ss]
        ELSE IF locked THEN [ok |-> FALSE, schedules |-> ss]
        ELSE [ok |-> TRUE, schedules |-> InsertDemoRows(rows, ss, used)]

RECURSIVE InsertDemoTeachers(_, _, _)
InsertDemoTeachers(ts, us, used) ==
    IF ts = <<>> THEN us
    ELSE IF \E u \in us : u.username = Head(ts).username
         THEN InsertDemoTeachers(Tail(ts), us, used)
    ELSE LET id == uuid4(used)
         IN  InsertDemoTeachers(Tail(ts),
                 us \cup {User(id, Head(ts).username, Head(ts).name, "teacher")},
                 used \cup {id})

\* init_demo_data(): the result of one run on the committed state
init_demo_data(us, ss, cs, st) ==
    LET used0  == UsedIds(us, ss, cs)
        adminId == uuid4(used0)
        us1 == IF \E u \in us : u.username = admin123 THEN us
               ELSE us \cup {User(adminId, admin123, Administrator, "admin")}
        us2 == InsertDemoTeachers(SubSeq(demo_teachers, 1, NumDemoTeachers), us1,
                                  used0 \cup {u.id : u \in us1})
        wrote == us2 # us \/ ~st
        load == IF ss = {}
                THEN load_demo_schedules(us, ss, cs, wrote, used0 \cup {u.id : u \in us2})
                ELSE [ok |-> TRUE, schedules |-> ss]
    IN  IF load.ok
        THEN [ok |-> TRUE, users |-> us2, schedules |-> load.schedules, settings |-> TRUE]
        ELSE [ok |-> FALSE, users |-> us, schedules |-> ss, settings |-> st]

(***************************************************************************)
(* Responses                                                               *)
(***************************************************************************)
Anonymous == User(0, <<>>, <<>>, "none")

\* the last request handled (handler, caller's id, arguments) and its response
Reply(op, caller, req, status, detail) ==
    [op |-> op, caller |-> caller.id, req |-> req, status |-> status, detail |-> detail]

NoDetail == <<>>
NotAuthenticated == <<"Not authenticated">>
AdminRequired == <<"Admin access required">>
ClassConflictDetail == <<"Schedule conflict: This class already has a lesson at this time">>
TeacherConflictDetail(teacher_name) ==
    <<"Schedule conflict: ", teacher_name, " already has a class at this time">>
ScheduleNotFound == <<"Schedule not found">>
InternalServerError == <<"Internal Server Error">>

\* the status of ConflictException, which no handler raises
HTTP_409_CONFLICT == 409

\* the values interpolated into a detail text: the teacher conflict is an
\* f-string with one value, the other details are fixed texts
Interpolated(detail) == IF Len(detail) = 3 THEN {detail[2]} ELSE {}

(***************************************************************************)
(* Rate limiting: SimpleRateLimiter keeps, for every client key, the list  *)
(* of the times of the requests it has admitted within the window.  The   *)
(* handler specifications serve fewer requests than either limit, so the   *)
(* middleware passes every one of their requests on.                       *)
(***************************************************************************)
max_requests == 30
window_seconds == 60
login_max_requests == 5

\* variant: the login limit is not applied
is_allowed_LoginAsOther(times, now, is_login) ==
    LET kept == SelectSeq(times, LAMBDA req_time : now - req_time < window_seconds)
    IN  IF Len(kept) >= max_requests THEN [allowed |-> FALSE, times |-> kept]
        ELSE [allowed |-> TRUE, times |-> Append(kept, now)]

\* variant: the time of a refused request is recorded as well
is_allowed_RecordsRefused(times, now, is_login) ==
    LET max_req == IF is_login THEN login_max_requests ELSE max_requests
        kept    == SelectSeq(times, LAMBDA req_time : now - req_time < window_seconds)
    IN  [allowed |-> Len(kept) < max_req, times |-> Append(kept, now)]

\* variant: the list may hold one more than max_req before a request is refused
is_allowed_OffByOne(times, now, is_login) ==
    LET max_req == IF is_login THEN login_max_requests ELSE max_requests
        kept    == SelectSeq(times, LAMBDA req_time : now - req_time < window_seconds)
    IN  IF Len(kept) > max_req THEN [allowed |-> FALSE, times |-> kept]
        ELSE [allowed |-> TRUE, times |-> Append(kept, now)]

\* is_allowed(key, is_login) at time now, on the list times = requests[key]
is_allowed(times, now, is_login) ==
    LET max_req == IF is_login THEN login_max_requests ELSE max_requests
        kept    == SelectSeq(times, LAMBDA req_time : now - req_time < window_seconds)
    IN  IF Len(kept) >= max_req THEN [allowed |-> FALSE, times |-> kept]
        ELSE [allowed |-> TRUE, times |-> Append(kept, now)]


(***************************************************************************)
(* Startup: both registered startup handlers run init_database and         *)
(* init_demo_data, one after the other                                     *)
(***************************************************************************)
NumStartupHandlers == 2

StartupEvent ==
    /\ boot < NumStartupHandlers
    /\ LET r == init_demo_data(users, schedules, changelogs, settings)
       IN  /\ users' = r.users
           /\ schedules' = r.schedules
           /\ settings' = r.settings
           /\ boot' = IF r.ok THEN boot + 1 ELSE 0
           /\ last' = Reply("startup", Anonymous, <<>>, IF r.ok THEN 200 ELSE 500, NoDetail)
    /\ UNCHANGED <<changelogs, handled, workers, writer, conn,
                 requests, clock, admitted, admitted_logins>>

(***************************************************************************)
(* POST /api/schedules                                                     *)
(***************************************************************************)
\* variant: the teacher check is missing
CreateConflict_NoTeacherCheck(ss, day, period, class_name, teacher_id, teacher_name) ==
    IF ClassMatches(ss, day, period, class_name) # {} THEN ClassConflictDetail
    ELSE NoDetail

\* variant: the teacher check runs before the class check
CreateConflict_TeacherFirst(ss, day, period, class_name, teacher_id, teacher_name) ==
    IF TeacherMatches(ss, day, period, teacher_id) # {} THEN TeacherConflictDetail(teacher_name)
    ELSE IF ClassMatches(ss, day, period, class_name) # {} THEN ClassConflictDetail
    ELSE NoDetail

\* the two conflict checks of create_schedule, in the order the code runs them
CreateConflict(ss, day, period, class_name, teacher_id, teacher_name) ==
    IF ClassMatches(ss, day, period, class_name) # {} THEN ClassConflictDetail
    ELSE IF TeacherMatches(ss, day, period, teacher_id) # {} THEN TeacherConflictDetail(teacher_name)
    ELSE NoDetail

\* variant: the class check is made on the class_name as submitted
create_schedule_RawClassCheck(caller, sd, ss, used) ==
    LET subject    == sanitize_input(sd.subject)
        class_name == sanitize_input(sd.class_name)
        conflict   == CreateConflict(ss, sd.day, sd.period, sd.class_name, sd.teacher_id, sd.teacher_name)
        schedule   == ScheduleEntry(uuid4(used), sd.teacher_id, sanitize_input(sd.teacher_name),
                                    sd.day, sd.period, subject, class_name)
    IN  IF caller = Anonymous THEN [status |-> 401, detail |-> NotAuthenticated, schedules |-> ss]
        ELSE IF caller.role # "admin" THEN [status |-> 403, detail |-> AdminRequired, schedules |-> ss]
        ELSE IF conflict # NoDetail THEN [status |-> 400, detail |-> conflict, schedules |-> ss]
        ELSE [status |-> 200, detail |-> NoDetail, schedules |-> ss \cup {schedule}]

create_schedule(caller, sd, ss, used) ==
    LET subject    == sanitize_input(sd.subject)
        class_name == sanitize_input(sd.class_name)
        conflict   == CreateConflict(ss, sd.day, sd.period, class_name, sd.teacher_id, sd.teacher_name)
        schedule   == ScheduleEntry(uuid4(used), sd.teacher_id, sanitize_input(sd.teacher_name),
                                    sd.day, sd.period, subject, class_name)
    IN  IF caller = Anonymous THEN [status |-> 401, detail |-> NotAuthenticated, schedules |-> ss]
        ELSE IF caller.role # "admin" THEN [status |-> 403, detail |-> AdminRequired, schedules |-> ss]
        ELSE IF conflict # NoDetail THEN [status |-> 400, detail |-> conflict, schedules |-> ss]
        ELSE [status |-> 200, detail |-> NoDetail, schedules |-> ss \cup {schedule}]

(***************************************************************************)
(* PUT /api/schedules/{schedule_id}                                        *)
(***************************************************************************)
\* Optional[str]: None is <<>>, a supplied text t is <<t>>
None == <<>>
Some(text) == <<text>>
IsNone(opt) == opt = None
Value(opt) == opt[1]

\* Python truthiness of an Optional[str]: neither None nor ''
Truthy(opt) == ~IsNone(opt) /\ Value(opt) # <<>>

ScheduleUpdate(subject, class_name) == [subject |-> subject, class_name |-> class_name]

\* subject + ' - ' + class_name
FormatValue(subject, class_name) == subject \o <<" ", "-", " ">> \o class_name

\* variant: changed_by is taken from the entry
ChangeLog_ChangedByTeacher(id, existing, old_value, new_value, changed_by, timestamp) ==
    [id |-> id, schedule_id |-> existing.id, teacher_id |-> existing.teacher_id,
     teacher_name |-> existing.teacher_name, day |-> existing.day, period |-> existing.period,
     old_value |-> old_value, new_value |-> new_value, changed_by |-> existing.teacher_name,
     timestamp |-> timestamp]

ChangeLog(id, existing, old_value, new_value, changed_by, timestamp) ==
    [id |-> id, schedule_id |-> existing.id, teacher_id |-> existing.teacher_id,
     teacher_name |-> existing.teacher_name, day |-> existing.day, period |-> existing.period,
     old_value |-> old_value, new_value |-> new_value, changed_by |-> changed_by,
     timestamp |-> timestamp]

\* datetime.now(timezone.utc) when a record is built: the clock reads later
\* than every timestamp already stored
Now(cs) ==
    LET stamps == {cs[i].timestamp : i \in 1..Len(cs)}
    IN  IF stamps = {} THEN 1 ELSE 1 + (CHOOSE t \in stamps : \A u \in stamps : u <= t)

\* the two conflict checks of update_schedule: both exclude the row itself
UpdateConflict(ss, existing, final_class_name) ==
    IF ClassMatches(ss, existing.day, existing.period, final_class_name) \ {existing} # {}
    THEN ClassConflictDetail
    ELSE IF TeacherMatches(ss, existing.day, existing.period, existing.teacher_id) \ {existing} # {}
    THEN TeacherConflictDetail(existing.teacher_name)
    ELSE NoDetail

\* variant: a supplied field counts as a change whatever its value
HasChanges_AnySupplied(update_data, existing) ==
    Truthy(update_data.subject) \/ Truthy(update_data.class_name)

\* the `changes` list is non-empty
HasChanges(update_data, existing) ==
    \/ Truthy(update_data.subject) /\ Value(update_data.subject) # existing.subject
    \/ Truthy(update_data.class_name) /\ Value(update_data.class_name) # existing.class_name

\* variant: both columns are set, to the sanitised final values
ApplyUpdate_FinalValues(existing, update_data) ==
    [existing EXCEPT
       !.subject = sanitize_input(IF IsNone(update_data.subject) THEN @
                                  ELSE Value(update_data.subject)),
       !.class_name = sanitize_input(IF IsNone(update_data.class_name) THEN @
                                     ELSE Value(update_data.class_name))]

\* UPDATE schedules SET <the fields that are not None> WHERE id = ?
ApplyUpdate(existing, update_data) ==
    [existing EXCEPT
       !.subject = IF IsNone(update_data.subject) THEN @ ELSE Value(update_data.subject),
       !.class_name = IF IsNone(update_data.class_name) THEN @ ELSE Value(update_data.class_name)]

update_schedule(caller, schedule_id, update_data, ss, cs, used) ==
    LET found    == {s \in ss : s.id = schedule_id}
        existing == CHOOSE s \in found : TRUE
        final_subject == sanitize_input(IF IsNone(update_data.subject) THEN existing.subject
                                        ELSE Value(update_data.subject))
        final_class_name == sanitize_input(IF IsNone(update_data.class_name) THEN existing.class_name
                                           ELSE Value(update_data.class_name))
        conflict == IF ~IsNone(update_data.subject) \/ ~IsNone(update_data.class_name)
                    THEN UpdateConflict(ss, existing, final_class_name)
                    ELSE NoDetail
        changelog == ChangeLog(uuid4(used), existing,
                               FormatValue(existing.subject, existing.class_name),
                               FormatValue(final_subject, final_class_name),
                               caller.name, Now(cs))
        cs1 == IF HasChanges(update_data, existing) THEN Append(cs, changelog) ELSE cs
        ss1 == (ss \ {existing}) \cup {ApplyUpdate(existing, update_data)}
    IN  IF caller = Anonymous
        THEN [status |-> 401, detail |-> NotAuthenticated, schedules |-> ss, changelogs |-> cs]
        ELSE IF caller.role # "admin"
        THEN [status |-> 403, detail |-> AdminRequired, schedules |-> ss, changelogs |-> cs]
        ELSE IF found = {}
        THEN [status |-> 404, detail |-> ScheduleNotFound, schedules |-> ss, changelogs |-> cs]
        ELSE IF conflict # NoDetail
        THEN [status |-> 400, detail |-> conflict, schedules |-> ss, changelogs |-> cs]
        ELSE [status |-> 200, detail |-> NoDetail, schedules |-> ss1, changelogs |-> cs1]

(***************************************************************************)
(* DELETE /api/schedules/{schedule_id}, POST /api/demo/clear-schedules,    *)
(* POST /api/demo/load-schedules                                           *)
(***************************************************************************)
\* variant: the row is not looked up before the DELETE
delete_schedule_NoLookup(caller, schedule_id, ss) ==
    IF caller = Anonymous THEN [status |-> 401, detail |-> NotAuthenticated, schedules |-> ss]
    ELSE IF caller.role # "admin" THEN [status |-> 403, detail |-> AdminRequired, schedules |-> ss]
    ELSE [status |-> 200, detail |-> NoDetail, schedules |-> {s \in ss : s.id # schedule_id}]

\* variant: the role is not checked
delete_schedule_NoRoleCheck(caller, schedule_id, ss) ==
    IF caller = Anonymous THEN [status |-> 401, detail |-> NotAuthenticated, schedules |-> ss]
    ELSE IF {s \in ss : s.id = schedule_id} = {}
    THEN [status |-> 404, detail |-> ScheduleNotFound, schedules |-> ss]
    ELSE [status |-> 200, detail |-> NoDetail, schedules |-> {s \in ss : s.id # schedule_id}]

delete_schedule(caller, schedule_id, ss) ==
    IF caller = Anonymous THEN [status |-> 401, detail |-> NotAuthenticated, schedules |-> ss]
    ELSE IF caller.role # "admin" THEN [status |-> 403, detail |-> AdminRequired, schedules |-> ss]
    ELSE IF {s \in ss : s.id = schedule_id} = {}
    THEN [status |-> 404, detail |-> ScheduleNotFound, schedules |-> ss]
    ELSE [status |-> 200, detail |-> NoDetail, schedules |-> {s \in ss : s.id # schedule_id}]

clear_all_schedules(caller, ss, cs) ==
    IF caller = Anonymous
    THEN [status |-> 401, detail |-> NotAuthenticated, schedules |-> ss, changelogs |-> cs]
    ELSE IF caller.role # "admin"
    THEN [status |-> 403, detail |-> AdminRequired, schedules |-> ss, changelogs |-> cs]
    ELSE [status |-> 200, detail |-> NoDetail, schedules |-> {}, changelogs |-> <<>>]

\* the handler's connection has issued its two DELETEs, and so holds the
\* write lock, when load_demo_schedules opens the second connection
load_demo_schedules_endpoint(caller, us, ss, cs) ==
    LET load == load_demo_schedules(us, ss, cs, TRUE, UsedIds(us, ss, cs))
    IN  IF caller = Anonymous
        THEN [status |-> 401, detail |-> NotAuthenticated, schedules |-> ss, changelogs |-> cs]
        ELSE IF caller.role # "admin"
        THEN [status |-> 403, detail |-> AdminRequired, schedules |-> ss, changelogs |-> cs]
        ELSE IF ~load.ok
        THEN [status |-> 500, detail |-> InternalServerError, schedules |-> ss, changelogs |-> cs]
        ELSE [status |-> 200, detail |-> NoDetail, schedules |-> load.schedules \ ss,
              changelogs |-> <<>>]

(***************************************************************************)
(* DELETE /api/users/{user_id}                                             *)
(***************************************************************************)

delete_user(caller, user_id, us, ss, cs) ==
    IF caller = Anonymous
    THEN [status |-> 401, detail |-> NotAuthenticated, users |-> us, schedules |-> ss, changelogs |-> cs]
    ELSE IF caller.role # "admin"
    THEN [status |-> 403, detail |-> AdminRequired, users |-> us, schedules |-> ss, changelogs |-> cs]
    ELSE IF {u \in us : u.id = user_id} = {}
    THEN [status |-> 404, detail |-> <<"User not found">>, users |-> us, schedules |-> ss, changelogs |-> cs]
    ELSE [status |-> 200, detail |-> NoDetail,
          users |-> {u \in us : u.id # user_id},
          schedules |-> {s \in ss : s.teacher_id # user_id},
          changelogs |-> SelectSeq(cs, LAMBDA c : c.teacher_id # user_id)]

(***************************************************************************)
(* GET /api/changelogs                                                     *)
(***************************************************************************)
MaxChangelogRows == 100

Reverse(q) == [i \in 1..Len(q) |-> q[Len(q) - i + 1]]

\* the rows in ascending order of timestamp
OrderByTimestamp(cs) ==
    LET n    == Len(cs)
        \* the place of row k in the result: rows with equal timestamps keep
        \* the order of the table
        rank == [k \in 1..n |->
                   Cardinality({j \in 1..n : \/ cs[j].timestamp < cs[k].timestamp
                                             \/ cs[j].timestamp = cs[k].timestamp /\ j <= k})]
    IN  [i \in 1..n |-> cs[CHOOSE k \in 1..n : rank[k] = i]]

\* variant: ORDER BY timestamp ASC
NewestFirst_Ascending(cs) ==
    LET r == OrderByTimestamp(cs)
    IN  SubSeq(r, 1, IF Len(r) < MaxChangelogRows THEN Len(r) ELSE MaxChangelogRows)

\* ORDER BY timestamp DESC LIMIT 100: the newest records first
NewestFirst(cs) ==
    LET r == Reverse(OrderByTimestamp(cs))
    IN  SubSeq(r, 1, IF Len(r) < MaxChangelogRows THEN Len(r) ELSE MaxChangelogRows)

\* truthiness of the teacher_id parameter: ids are non-empty strings, and an
\* empty parameter takes the same branch as an absent one
SuppliedId(teacher_id) == ~IsNone(teacher_id)

\* variant: the teacher_id parameter is looked at before the caller's role
get_changelogs_ParameterFirst(caller, teacher_id, cs) ==
    LET rows == IF SuppliedId(teacher_id)
                THEN SelectSeq(cs, LAMBDA c : c.teacher_id = Value(teacher_id))
                ELSE IF caller.role = "teacher"
                THEN SelectSeq(cs, LAMBDA c : c.teacher_id = caller.id)
                ELSE cs
    IN  IF caller = Anonymous THEN [status |-> 401, detail |-> NotAuthenticated]
        ELSE [status |-> 200, detail |-> NewestFirst(rows)]

\* teacher_id is the query parameter: None, or an id
get_changelogs(caller, teacher_id, cs) ==
    LET rows == IF caller.role = "teacher"
                THEN SelectSeq(cs, LAMBDA c : c.teacher_id = caller.id)
                ELSE IF SuppliedId(teacher_id)
                THEN SelectSeq(cs, LAMBDA c : c.teacher_id = Value(teacher_id))
                ELSE cs
    IN  IF caller = Anonymous THEN [status |-> 401, detail |-> NotAuthenticated]
        ELSE [status |-> 200, detail |-> NewestFirst(rows)]

(***************************************************************************)
(* POST /api/bulk/import-schedules                                         *)
(***************************************************************************)
valid_days == {Monday, Tuesday, Wednesday, Thursday, Friday}
MinPeriod == 1
MaxValidPeriod == 8

Digits == <<"0", "1", "2", "3", "4", "5", "6", "7", "8", "9">>
DigitValue(c) == (CHOOSE i \in 1..10 : Digits[i] = c) - 1
IsDigit(c) == \E i \in 1..10 : Digits[i] = c

RECURSIVE DigitsValue(_)
DigitsValue(text) ==
    IF text = <<>> THEN 0
    ELSE 10 * DigitsValue(SubSeq(text, 1, Len(text) - 1)) + DigitValue(text[Len(text)])

\* int(period_str): an optional sign followed by decimal digits
IsInt(text) ==
    LET body == IF text # <<>> /\ Head(text) \in {"+", "-"} THEN Tail(text) ELSE text
    IN  body # <<>> /\ \A i \in 1..Len(body) : IsDigit(body[i])

ParseInt(text) ==
    IF Head(text) = "-" THEN 0 - DigitsValue(Tail(text))
    ELSE IF Head(text) = "+" THEN DigitsValue(Tail(text))
    ELSE DigitsValue(text)

CsvRow(teacher_name, day, period, subject, class_name) ==
    [teacher_name |-> teacher_name, day |-> day, period |-> period,
     subject |-> subject, class_name |-> class_name]

\* teachers = {row['name']: row['id'] ...}: a later row of the same name wins
TeacherIdByName(us, name) ==
    LET ids == {u.id : u \in {v \in us : v.role = "teacher" /\ v.name = name}}
    IN  CHOOSE i \in ids : \A j \in ids : j <= i

\* variant: the rows are inserted without the two conflict checks
ImportRow_NoConflictCheck(us, acc, row, row_num) ==
    LET teacher_name == sanitize_input(Strip(row.teacher_name))
        day          == sanitize_input(Strip(row.day))
        period_str   == Strip(row.period)
        subject      == sanitize_input(Strip(row.subject))
        class_name   == sanitize_input(Strip(row.class_name))
        period       == ParseInt(period_str)
        teacher_id   == TeacherIdByName(us, teacher_name)
        reject(kind) == [acc EXCEPT !.errors = Append(@, <<row_num, kind>>)]
        used == UsedIds(us, acc.schedules, acc.changelogs)
    IN  IF \E t \in {teacher_name, day, period_str, subject, class_name} : t = <<>>
        THEN reject("Missing required fields")
        ELSE IF ~\E u \in us : u.role = "teacher" /\ u.name = teacher_name
        THEN reject("Teacher not found")
        ELSE IF ~IsInt(period_str) \/ period < MinPeriod \/ period > MaxValidPeriod
        THEN reject("Invalid period")
        ELSE IF day \notin valid_days
        THEN reject("Invalid day")
        ELSE [acc EXCEPT
                !.schedules = @ \cup {ScheduleEntry(uuid4(used), teacher_id, teacher_name,
                                                    day, period, subject, class_name)},
                !.imported_count = @ + 1]

\* variant: the loop ends at the first rejected row
ImportRow_StopAtError(us, acc, row, row_num) ==
    LET teacher_name == sanitize_input(Strip(row.teacher_name))
        day          == sanitize_input(Strip(row.day))
        period_str   == Strip(row.period)
        subject      == sanitize_input(Strip(row.subject))
        class_name   == sanitize_input(Strip(row.class_name))
        period       == ParseInt(period_str)
        teacher_id   == TeacherIdByName(us, teacher_name)
        reject(kind) == [acc EXCEPT !.errors = Append(@, <<row_num, kind>>)]
        used == UsedIds(us, acc.schedules, acc.changelogs)
    IN  IF acc.errors # <<>> THEN acc
        ELSE IF \E t \in {teacher_name, day, period_str, subject, class_name} : t = <<>>
        THEN reject("Missing required fields")
        ELSE IF ~\E u \in us : u.role = "teacher" /\ u.name = teacher_name
        THEN reject("Teacher not found")
        ELSE IF ~IsInt(period_str) \/ period < MinPeriod \/ period > MaxValidPeriod
        THEN reject("Invalid period")
        ELSE IF day \notin valid_days
        THEN reject("Invalid day")
        ELSE IF ClassMatches(acc.schedules, day, period, class_name) # {}
        THEN reject("Class conflict")
        ELSE IF TeacherMatches(acc.schedules, day, period, teacher_id) # {}
        THEN reject("Teacher conflict")
        ELSE [acc EXCEPT
                !.schedules = @ \cup {ScheduleEntry(uuid4(used), teacher_id, teacher_name,
                                                    day, period, subject, class_name)},
                !.imported_count = @ + 1]

\* one iteration of the row loop, on the handler's connection: acc holds the
\* connection's view of the schedules table, the count and the error list
ImportRow(us, acc, row, row_num) ==
    LET teacher_name == sanitize_input(Strip(row.teacher_name))
        day          == sanitize_input(Strip(row.day))
        period_str   == Strip(row.period)
        subject      == sanitize_input(Strip(row.subject))
        class_name   == sanitize_input(Strip(row.class_name))
        period       == ParseInt(period_str)
        teacher_id   == TeacherIdByName(us, teacher_name)
        reject(kind) == [acc EXCEPT !.errors = Append(@, <<row_num, kind>>)]
        used == UsedIds(us, acc.schedules, acc.changelogs)
    IN  IF \E t \in {teacher_name, day, period_str, subject, class_name} : t = <<>>
        THEN reject("Missing required fields")
        ELSE IF ~\E u \in us : u.role = "teacher" /\ u.name = teacher_name
        THEN reject("Teacher not found")
        ELSE IF ~IsInt(period_str) \/ period < MinPeriod \/ period > MaxValidPeriod
        THEN reject("Invalid period")
        ELSE IF day \notin valid_days
        THEN reject("Invalid day")
        ELSE IF ClassMatches(acc.schedules, day, period, class_name) # {}
        THEN reject("Class conflict")
        ELSE IF TeacherMatches(acc.schedules, day, period, teacher_id) # {}
        THEN reject("Teacher conflict")
        ELSE [acc EXCEPT
                !.schedules = @ \cup {ScheduleEntry(uuid4(used), teacher_id, teacher_name,
                                                    day, period, subject, class_name)},
                !.imported_count = @ + 1]

RECURSIVE ImportRows(_, _, _, _)
ImportRows(us, acc, rows, row_num) ==
    IF rows = <<>> THEN acc
    ELSE ImportRows(us, ImportRow(us, acc, Head(rows), row_num), Tail(rows), row_num + 1)

MaxReportedErrors == 10

import_schedules_csv(caller, rows, us, ss, cs) ==
    LET acc == ImportRows(us, [schedules |-> ss, changelogs |-> cs, imported_count |-> 0,
                               errors |-> <<>>], rows, 2)
    IN  IF caller = Anonymous THEN [status |-> 401, detail |-> NotAuthenticated, schedules |-> ss]
        ELSE IF caller.role # "admin" THEN [status |-> 403, detail |-> AdminRequired, schedules |-> ss]
        ELSE [status |-> 200,
              detail |-> [imported_count |-> acc.imported_count,
                          errors |-> SubSeq(acc.errors, 1,
                                            IF Len(acc.errors) < MaxReportedErrors
                                            THEN Len(acc.errors) ELSE MaxReportedErrors)],
              schedules |-> acc.schedules]

(***************************************************************************)
(* Requests the model submits                                              *)
(***************************************************************************)
Callers == users \cup {Anonymous}
\* the ids of the stored entries, and one id that no row has
ScheduleIdInputs == {s.id : s \in schedules} \cup {0}
DayInputs == {Monday, Tuesday}
PeriodInputs == 1..MaxPeriod
Amp == <<"&">>
EscapedAmp == <<"&", "a", "m", "p", ";">>
CreateClassInputs == {Grade10A, Amp}
UpdateSubjectInputs == {Mathematics, <<>>}
UpdateClassInputs == {EscapedAmp}
OptionalOf(texts) == {None} \cup {Some(t) : t \in texts}

ScheduleCreate(teacher_id, teacher_name, day, period, subject, class_name) ==
    [teacher_id |-> teacher_id, teacher_name |-> teacher_name, day |-> day,
     period |-> period, subject |-> subject, class_name |-> class_name]

\* a day that is no weekday and a period past the last one
Sunday == <<"S", "u", "n", "d", "a", "y">>

ScheduleCreateInputs ==
    {ScheduleCreate(t.id, t.name, d, p, sub, c) :
        t \in {u \in users : u.role = "teacher"}, d \in DayInputs, p \in PeriodInputs,
        sub \in {Mathematics}, c \in CreateClassInputs}
    \cup {ScheduleCreate(t.id, t.name, Sunday, MaxValidPeriod + 1, Mathematics, Grade10A) :
             t \in {u \in users : u.role = "teacher"}}

ScheduleUpdateInputs ==
    {ScheduleUpdate(sub, c) : sub \in OptionalOf(UpdateSubjectInputs), c \in OptionalOf(UpdateClassInputs)}

\* the teacher_id query parameter: absent, or the id of a user
TeacherIdInputs == {None} \cup {<<u.id>> : u \in users}

\* the ids of the stored users, and one id that no user has
UserIdInputs == {u.id : u \in users} \cup {0}

CsvRowInputs ==
    { CsvRow(SagnikSir, Monday, <<"2">>, Mathematics, Amp),
      CsvRow(NadeemSir, <<" ">> \o Monday, <<"2">>, Mathematics, EscapedAmp),
      CsvRow(NadeemSir, Monday, <<"9">>, Mathematics, Grade10A) }

RECURSIVE SeqsUpTo(_, _)
SeqsUpTo(S, n) ==
    IF n = 0 THEN {<<>>}
    ELSE LET shorter == SeqsUpTo(S, n - 1)
         IN  shorter \cup {Append(q, x) : q \in shorter, x \in S}

CsvFileInputs == SeqsUpTo(CsvRowInputs, MaxCsvRows)

(***************************************************************************)
(* Actions: one per handler                                                *)
(***************************************************************************)
Serving == boot = NumStartupHandlers /\ writer = 0 /\ handled < MaxRequests

CreateSchedule(caller, sd) ==
    /\ Serving
    /\ LET r == create_schedule(caller, sd, schedules, UsedIds(users, schedules, changelogs))
       IN  /\ schedules' = r.schedules
           /\ last' = Reply("create", caller, sd, r.status, r.detail)
    /\ handled' = handled + 1
    /\ UNCHANGED <<users, changelogs, settings, boot, workers, writer, conn,
                 requests, clock, admitted, admitted_logins>>

UpdateSchedule(caller, schedule_id, update_data) ==
    /\ Serving
    /\ LET r == update_schedule(caller, schedule_id, update_data, schedules, changelogs,
                                UsedIds(users, schedules, changelogs))
       IN  /\ schedules' = r.schedules
           /\ changelogs' = r.changelogs
           /\ last' = Reply("update", caller,
                            [schedule_id |-> schedule_id, update_data |-> update_data],
                            r.status, r.detail)
    /\ handled' = handled + 1
    /\ UNCHANGED <<users, settings, boot, workers, writer, conn,
                 requests, clock, admitted, admitted_logins>>

DeleteSchedule(caller, schedule_id) ==
    /\ Serving
    /\ LET r == delete_schedule(caller, schedule_id, schedules)
       IN  /\ schedules' = r.schedules
           /\ last' = Reply("delete", caller, [schedule_id |-> schedule_id], r.status, r.detail)
    /\ handled' = handled + 1
    /\ UNCHANGED <<users, changelogs, settings, boot, workers, writer, conn,
                 requests, clock, admitted, admitted_logins>>

ClearAllSchedules(caller) ==
    /\ Serving
    /\ LET r == clear_all_schedules(caller, schedules, changelogs)
       IN  /\ schedules' = r.schedules
           /\ changelogs' = r.changelogs
           /\ last' = Reply("clear", caller, <<>>, r.status, r.detail)
    /\ handled' = handled + 1
    /\ UNCHANGED <<users, settings, boot, workers, writer, conn,
                 requests, clock, admitted, admitted_logins>>

LoadDemoSchedulesEndpoint(caller) ==
    /\ Serving
    /\ LET r == load_demo_schedules_endpoint(caller, users, schedules, changelogs)
       IN  /\ schedules' = r.schedules
           /\ changelogs' = r.changelogs
           /\ last' = Reply("demo_load", caller, <<>>, r.status, r.detail)
    /\ handled' = handled + 1
    /\ UNCHANGED <<users, settings, boot, workers, writer, conn,
                 requests, clock, admitted, admitted_logins>>

ImportSchedulesCsv(caller, rows) ==
    /\ Serving
    /\ LET r == import_schedules_csv(caller, rows, users, schedules, changelogs)
       IN  /\ schedules' = r.schedules
           /\ last' = Reply("import", caller, rows, r.status, r.detail)
    /\ handled' = handled + 1
    /\ UNCHANGED <<users, changelogs, settings, boot, workers, writer, conn,
                 requests, clock, admitted, admitted_logins>>

DeleteUser(caller, user_id) ==
    /\ Serving
    /\ LET r == delete_user(caller, user_id, users, schedules, changelogs)
       IN  /\ users' = r.users
           /\ schedules' = r.schedules
           /\ changelogs' = r.changelogs
           /\ last' = Reply("delete_user", caller, [user_id |-> user_id], r.status, r.detail)
    /\ handled' = handled + 1
    /\ UNCHANGED <<settings, boot, workers, writer, conn,
                 requests, clock, admitted, admitted_logins>>

GetChangelogs(caller, teacher_id) ==
    /\ Serving
    /\ LET r == get_changelogs(caller, teacher_id, changelogs)
       IN  last' = Reply("changelogs", caller, [teacher_id |-> teacher_id], r.status, r.detail)
    /\ handled' = handled + 1
    /\ UNCHANGED <<users, schedules, changelogs, settings, boot, workers, writer, conn,
                 requests, clock, admitted, admitted_logins>>

\* the server stops (the shutdown handler does nothing) and is started again
\* on the same database file: the startup handlers run once more
ShutdownDbClient ==
    /\ Serving
    /\ boot' = 0
    /\ last' = Reply("shutdown", Anonymous, <<>>, 0, NoDetail)
    /\ handled' = handled + 1
    /\ UNCHANGED <<users, schedules, changelogs, settings, workers, writer, conn,
                 requests, clock, admitted, admitted_logins>>

(***************************************************************************)
(* Specification: the handlers of one server process, one at a time        *)
(***************************************************************************)
Workers == {1, 2}
\* the clients the rate limiter sees
Keys == {"10.0.0.1"}
NoRequest == ScheduleCreate(0, <<>>, <<>>, 0, <<>>, <<>>)
IdleWorker == [pc |-> "idle", sd |-> NoRequest, id |-> 0, status |-> 0, detail |-> NoDetail]
\* the connection of an update_schedule call in progress: the request, and the
\* rows its INSERT and UPDATE have written but not committed
IdleConn == [pc |-> "idle", caller |-> Anonymous, schedule_id |-> 0,
             update_data |-> ScheduleUpdate(None, None), log |-> <<>>, rows |-> {}]

Init ==
    /\ users = {}
    /\ schedules = {}
    /\ changelogs = <<>>
    /\ settings = FALSE
    /\ boot = 0
    /\ handled = 0
    /\ last = Reply("none", Anonymous, <<>>, 0, NoDetail)
    /\ workers = [w \in Workers |-> IdleWorker]
    /\ writer = 0
    /\ conn = IdleConn
    /\ requests = [key \in Keys |-> <<>>]
    /\ clock = 0
    /\ admitted = [key \in Keys |-> <<>>]
    /\ admitted_logins = [key \in Keys |-> <<>>]

Next ==
    \/ StartupEvent
    \/ ShutdownDbClient
    \/ \E caller \in Callers, sd \in ScheduleCreateInputs : CreateSchedule(caller, sd)
    \/ \E caller \in Callers, id \in ScheduleIdInputs, ud \in ScheduleUpdateInputs :
          UpdateSchedule(caller, id, ud)
    \/ \E caller \in Callers, id \in ScheduleIdInputs : DeleteSchedule(caller, id)
    \/ \E caller \in Callers : ClearAllSchedules(caller)
    \/ \E caller \in Callers : LoadDemoSchedulesEndpoint(caller)
    \/ \E caller \in Callers, rows \in CsvFileInputs : ImportSchedulesCsv(caller, rows)
    \/ \E caller \in Callers, tid \in TeacherIdInputs : GetChangelogs(caller, tid)
    \/ \E caller \in Callers, id \in UserIdInputs : DeleteUser(caller, id)

Spec == Init /\ [][Next]_vars

(***************************************************************************)
(* create_schedule in two server processes.  Each request has its own      *)
(* connection; its two SELECTs and its INSERT are separate statements, and *)
(* the statements of two processes interleave.  A SELECT sees the          *)
(* committed table; the INSERT takes the write lock of the file, which     *)
(* conn.commit() releases.  The schema declares no UNIQUE constraint on    *)
(* (day, period, class_name) or (day, period, teacher_id), so an INSERT    *)
(* never fails on the rows another connection has committed.               *)
(***************************************************************************)
Done(w, status, detail) ==
    workers' = [workers EXCEPT ![w] = [@ EXCEPT !.pc = "done", !.status = status, !.detail = detail]]

Goto(w, pc) == workers' = [workers EXCEPT ![w] = [@ EXCEPT !.pc = pc]]

PendingIds == {workers[w].id : w \in Workers}

\* the role check and the sanitising of the inputs
BeginCreate(w, caller, sd) ==
    /\ boot = NumStartupHandlers
    /\ handled < MaxRequests
    /\ workers[w].pc = "idle"
    /\ handled' = handled + 1
    /\ workers' = [workers EXCEPT ![w] =
          IF caller = Anonymous
          THEN [pc |-> "done", sd |-> sd, id |-> 0, status |-> 401, detail |-> NotAuthenticated]
          ELSE IF caller.role # "admin"
          THEN [pc |-> "done", sd |-> sd, id |-> 0, status |-> 403, detail |-> AdminRequired]
          ELSE [pc |-> "class_check",
                sd |-> [sd EXCEPT !.subject = sanitize_input(@), !.class_name = sanitize_input(@)],
                id |-> 0, status |-> 0, detail |-> NoDetail]]
    /\ UNCHANGED <<users, schedules, changelogs, settings, boot, last, writer, conn,
                 requests, clock, admitted, admitted_logins>>

\* SELECT COUNT(*) ... class_name = ?
CheckClass(w) ==
    /\ workers[w].pc = "class_check"
    /\ LET sd == workers[w].sd
       IN  IF ClassMatches(schedules, sd.day, sd.period, sd.class_name) # {}
           THEN Done(w, 400, ClassConflictDetail)
           ELSE Goto(w, "teacher_check")
    /\ UNCHANGED <<users, schedules, changelogs, settings, boot, last, handled, writer, conn,
                 requests, clock, admitted, admitted_logins>>

\* SELECT COUNT(*) ... teacher_id = ?
CheckTeacher(w) ==
    /\ workers[w].pc = "teacher_check"
    /\ LET sd == workers[w].sd
       IN  IF TeacherMatches(schedules, sd.day, sd.period, sd.teacher_id) # {}
           THEN Done(w, 400, TeacherConflictDetail(sd.teacher_name))
           ELSE Goto(w, "insert")
    /\ UNCHANGED <<users, schedules, changelogs, settings, boot, last, handled, writer, conn,
                 requests, clock, admitted, admitted_logins>>

\* INSERT INTO schedules: takes the write lock.  While the other connection
\* holds it the statement waits in the busy handler; the holder commits right
\* after its own INSERT, long before the 5 s busy timeout, so the wait ends
\* with the lock free
Insert(w) ==
    /\ workers[w].pc = "insert"
    /\ writer = 0
    /\ writer' = w
    /\ workers' = [workers EXCEPT ![w] =
          [@ EXCEPT !.pc = "commit",
                    !.id = uuid4(UsedIds(users, schedules, changelogs) \cup PendingIds)]]
    /\ UNCHANGED <<users, schedules, changelogs, settings, boot, last, handled, conn,
                 requests, clock, admitted, admitted_logins>>

\* conn.commit() and the response
Commit(w) ==
    /\ workers[w].pc = "commit"
    /\ writer = w
    /\ LET sd == workers[w].sd
       IN  schedules' = schedules \cup
              {ScheduleEntry(workers[w].id, sd.teacher_id, sanitize_input(sd.teacher_name),
                             sd.day, sd.period, sd.subject, sd.class_name)}
    /\ writer' = 0
    /\ Done(w, 200, NoDetail)
    /\ UNCHANGED <<users, changelogs, settings, boot, last, handled, conn,
                 requests, clock, admitted, admitted_logins>>

\* the process takes its next request
Respond(w) ==
    /\ workers[w].pc = "done"
    /\ workers' = [workers EXCEPT ![w] = IdleWorker]
    /\ UNCHANGED <<users, schedules, changelogs, settings, boot, last, handled, writer, conn,
                 requests, clock, admitted, admitted_logins>>

NextConc ==
    \/ StartupEvent
    \/ \E w \in Workers, caller \in Callers, sd \in ScheduleCreateInputs : BeginCreate(w, caller, sd)
    \/ \E w \in Workers : CheckClass(w)
    \/ \E w \in Workers : CheckTeacher(w)
    \/ \E w \in Workers : Insert(w)
    \/ \E w \in Workers : Commit(w)
    \/ \E w \in Workers : Respond(w)

SpecConc == Init /\ [][NextConc]_vars

(***************************************************************************)
(* update_schedule statement by statement, with failures.  The connection  *)
(* is opened with the sqlite3 defaults: the INSERT into changelogs opens a *)
(* transaction, the UPDATE joins it, conn.commit() makes both visible, and *)
(* conn.close() without a commit (an exception leaving the with block, or  *)
(* the process dying) discards both.                                       *)
(***************************************************************************)
\* variant: the connection is in autocommit mode
InsertChangelog_Autocommit(cs, pending, record) ==
    [committed |-> Append(cs, record), pending |-> pending]

\* cursor.execute("INSERT INTO changelogs ...") on the handler's connection
InsertChangelog(cs, pending, record) ==
    [committed |-> cs, pending |-> Append(pending, record)]

\* the role check, the SELECT of the row and the two conflict checks
UpdBegin(caller, schedule_id, update_data) ==
    /\ Serving
    /\ conn.pc = "idle"
    /\ handled' = handled + 1
    /\ LET r == update_schedule(caller, schedule_id, update_data, schedules, changelogs,
                                UsedIds(users, schedules, changelogs))
           req == [schedule_id |-> schedule_id, update_data |-> update_data]
       IN  IF r.status # 200
           THEN /\ last' = Reply("update", caller, req, r.status, r.detail)
                /\ conn' = conn
           ELSE /\ last' = Reply("update", caller, req, 0, NoDetail)
                /\ conn' = [pc |-> "log", caller |-> caller, schedule_id |-> schedule_id,
                            update_data |-> update_data, log |-> <<>>, rows |-> {}]
    /\ UNCHANGED <<users, schedules, changelogs, settings, boot, workers, writer,
                 requests, clock, admitted, admitted_logins>>

ConnExisting == CHOOSE s \in schedules : s.id = conn.schedule_id

\* if changes: the ChangeLog record is built and inserted
UpdInsertLog ==
    /\ conn.pc = "log"
    /\ LET existing == ConnExisting
           r   == update_schedule(conn.caller, conn.schedule_id, conn.update_data, schedules,
                                  changelogs, UsedIds(users, schedules, changelogs))
           new == SubSeq(r.changelogs, Len(changelogs) + 1, Len(r.changelogs))
           w   == IF new = <<>> THEN [committed |-> changelogs, pending |-> <<>>]
                  ELSE InsertChangelog(changelogs, <<>>, new[1])
       IN  /\ changelogs' = w.committed
           /\ conn' = [conn EXCEPT !.pc = "update", !.log = w.pending]
    /\ UNCHANGED <<users, schedules, settings, boot, last, handled, workers, writer,
                 requests, clock, admitted, admitted_logins>>

\* UPDATE schedules SET ... WHERE id = ?
UpdExecUpdate ==
    /\ conn.pc = "update"
    /\ conn' = [conn EXCEPT !.pc = "commit", !.rows = {ApplyUpdate(ConnExisting, conn.update_data)}]
    /\ UNCHANGED <<users, schedules, changelogs, settings, boot, last, handled, workers, writer,
                 requests, clock, admitted, admitted_logins>>

\* conn.commit() and the response
UpdCommit ==
    /\ conn.pc = "commit"
    /\ schedules' = (schedules \ {ConnExisting}) \cup conn.rows
    /\ changelogs' = changelogs \o conn.log
    /\ last' = [last EXCEPT !.status = 200]
    /\ conn' = IdleConn
    /\ UNCHANGED <<users, settings, boot, handled, workers, writer,
                 requests, clock, admitted, admitted_logins>>

\* a statement raises, or the process dies, before conn.commit(): the
\* connection is closed and its uncommitted rows are gone
UpdFail ==
    /\ conn.pc \in {"log", "update", "commit"}
    /\ last' = [last EXCEPT !.status = 500, !.detail = InternalServerError]
    /\ conn' = IdleConn
    /\ UNCHANGED <<users, schedules, changelogs, settings, boot, handled, workers, writer,
                 requests, clock, admitted, admitted_logins>>

NextTxn ==
    \/ StartupEvent
    \/ \E caller \in Callers, id \in ScheduleIdInputs, ud \in ScheduleUpdateInputs :
          UpdBegin(caller, id, ud)
    \/ UpdInsertLog
    \/ UpdExecUpdate
    \/ UpdCommit
    \/ UpdFail

SpecTxn == Init /\ [][NextTxn]_vars

(***************************************************************************)
(* get_changelogs on a database that already holds changelog records: the  *)
(* server has started once and the admin has made a number of updates      *)
(***************************************************************************)
MaxStoredLogs == 101

\* the database after the first startup: the startup handlers have run in turn
RECURSIVE Started(_)
Started(n) ==
    IF n = 0 THEN [ok |-> TRUE, users |-> {}, schedules |-> {}, settings |-> FALSE]
    ELSE LET db == Started(n - 1)
         IN  init_demo_data(db.users, db.schedules, <<>>, db.settings)

Seeded == Started(NumStartupHandlers)

\* the k-th update of the history: the first gives the first entry a class
\* of its own, the later ones change the subject of the entries in turn
StoredUpdate(ss, k) ==
    LET entries == SetToSeqById(ss)
        e       == entries[(k % Len(entries)) + 1]
    IN  [schedule_id |-> IF k = 1 THEN entries[1].id ELSE e.id,
         update_data |-> IF k = 1 THEN ScheduleUpdate(None, Some(Amp))
                         ELSE ScheduleUpdate(Some(IF e.subject = Physics THEN Mathematics
                                                  ELSE Physics), None)]

\* the tables after the admin has made the n updates k, k + 1, ... through
\* update_schedule, one after the other, on the tables db
RECURSIVE AfterUpdates(_, _, _)
AfterUpdates(k, n, db) ==
    IF n = 0 THEN db
    ELSE IF n = 1
    THEN LET admin == CHOOSE u \in Seeded.users : u.role = "admin"
             u     == StoredUpdate(db.schedules, k)
             r     == update_schedule(admin, u.schedule_id, u.update_data,
                                      db.schedules, db.changelogs,
                                      UsedIds(Seeded.users, db.schedules, db.changelogs))
         IN  [status |-> r.status, schedules |-> r.schedules, changelogs |-> r.changelogs]
    ELSE LET first == AfterUpdates(k, n \div 2, db)
         IN  IF first.status = 200 THEN AfterUpdates(k + n \div 2, n - n \div 2, first)
             ELSE first

\* the numbers of updates made: a few, or about as many as one query returns

InitLogs ==
    \E n \in {k \in 0..MaxStoredLogs : k <= 3 \/ k >= MaxChangelogRows - 1} :
       LET db == AfterUpdates(1, n, [status |-> 200, schedules |-> Seeded.schedules,
                                     changelogs |-> <<>>])
       IN  /\ users = Seeded.users
           /\ schedules = db.schedules
           /\ changelogs = db.changelogs
           /\ settings = Seeded.settings
           /\ boot = NumStartupHandlers
           /\ handled = 0
           /\ last = Reply("startup", Anonymous, <<>>, 200, NoDetail)
           /\ workers = [w \in Workers |-> IdleWorker]
           /\ writer = 0
           /\ conn = IdleConn
           /\ requests = [key \in Keys |-> <<>>]
           /\ clock = 0
           /\ admitted = [key \in Keys |-> <<>>]
           /\ admitted_logins = [key \in Keys |-> <<>>]

NextLogs ==
    \E caller \in Callers, tid \in TeacherIdInputs : GetChangelogs(caller, tid)

SpecLogs == InitLogs /\ [][NextLogs]_vars

(***************************************************************************)
(* The rate limiter alone: requests of one client arrive while the clock   *)
(* (time.time(), in whole seconds) moves on.  requests is the limiter's    *)
(* dictionary, admitted and admitted_logins record the arrival times of   *)
(* the non-login and the login requests the middleware has passed on, and  *)
(* after_refusal says that the client's request before this one was        *)
(* refused.                                                                *)
(***************************************************************************)
\* request.client.host is passed as the key; status 0: handed to call_next
RateLimitMiddleware(client_ip, is_login) ==
    /\ LET r == is_allowed(requests[client_ip], clock, is_login)
       IN  /\ requests' = [requests EXCEPT ![client_ip] = r.times]
           /\ admitted' = IF r.allowed /\ ~is_login
                          THEN [admitted EXCEPT ![client_ip] = Append(@, clock)]
                          ELSE admitted
           /\ admitted_logins' = IF r.allowed /\ is_login
                                 THEN [admitted_logins EXCEPT ![client_ip] = Append(@, clock)]
                                 ELSE admitted_logins
           /\ last' = [op |-> "rate_limit", caller |-> 0,
                       req |-> [client_ip |-> client_ip, is_login |-> is_login,
                               after_refusal |-> /\ last.op = "rate_limit"
                                                 /\ last.status = 429
                                                 /\ last.req.client_ip = client_ip],
                       status |-> IF r.allowed THEN 0 ELSE 429,
                       detail |-> IF r.allowed THEN NoDetail ELSE <<"Too many requests. Please slow down.">>]
    /\ UNCHANGED <<users, schedules, changelogs, settings, boot, handled, workers, writer, conn,
                   clock>>

Tick ==
    /\ clock + TickSeconds <= MaxClock
    /\ clock' = clock + TickSeconds
    /\ UNCHANGED <<users, schedules, changelogs, settings, boot, last, handled, workers, writer,
                   conn, requests, admitted, admitted_logins>>

NextRate ==
    \/ \E client_ip \in Keys, is_login \in BOOLEAN : RateLimitMiddleware(client_ip, is_login)
    \/ Tick

SpecRate == Init /\ [][NextRate]_vars

(***************************************************************************)
(* database.py: SQLiteCollection, the document-style adapter over a table. *)
(* A query is a dictionary, here the set of its <<column, value>> items;   *)
(* the schedules variable holds the rows of the collection's table.        *)
(***************************************************************************)
\* WHERE k1 = ? AND k2 = ? ...
Matching(table, query) == {row \in table : \A item \in query : row[item[1]] = item[2]}

delete_one(table, query) ==
    LET deleted == IF query # {} THEN Matching(table, query) ELSE table
    IN  [deleted_count |-> Cardinality(deleted), table |-> table \ deleted]

delete_many(table, query) == delete_one(table, query)

DeleteOne(query) ==
    /\ LET r == delete_one(schedules, query)
       IN  /\ schedules' = r.table
           /\ last' = [op |-> "delete_one", caller |-> 0, req |-> query, status |-> 0,
                       detail |-> [deleted_count |-> r.deleted_count]]
    /\ UNCHANGED <<users, changelogs, settings, boot, handled, workers, writer, conn,
                   requests, clock, admitted, admitted_logins>>

DeleteMany(query) ==
    /\ LET r == delete_many(schedules, query)
       IN  /\ schedules' = r.table
           /\ last' = [op |-> "delete_many", caller |-> 0, req |-> query, status |-> 0,
                       detail |-> [deleted_count |-> r.deleted_count]]
    /\ UNCHANGED <<users, changelogs, settings, boot, handled, workers, writer, conn,
                   requests, clock, admitted, admitted_logins>>

InitCollection ==
    /\ users = {}
    /\ schedules \in SUBSET
           {ScheduleEntry(i, 1 + (i % 2), SagnikSir, IF i <= 2 THEN Monday ELSE Tuesday, i,
                          Mathematics, Grade10A) : i \in 1..MaxRows}
    /\ changelogs = <<>>
    /\ settings = FALSE
    /\ boot = 0
    /\ handled = 0
    /\ last = Reply("none", Anonymous, <<>>, 0, NoDetail)
    /\ workers = [w \in Workers |-> IdleWorker]
    /\ writer = 0
    /\ conn = IdleConn
    /\ requests = [key \in Keys |-> <<>>]
    /\ clock = 0
    /\ admitted = [key \in Keys |-> <<>>]
    /\ admitted_logins = [key \in Keys |-> <<>>]

QueryInputs ==
    {{}} \cup {{<<"teacher_id", t>>} : t \in 1..2} \cup {{<<"day", d>>} : d \in {Monday, Tuesday}}
         \cup {{<<"id", i>>} : i \in 1..2} \cup {{<<"teacher_id", 1>>, <<"day", Tuesday>>}}

NextCollection ==
    \/ \E query \in QueryInputs : DeleteOne(query)
    \/ \E query \in QueryInputs : DeleteMany(query)

SpecCollection == InitCollection /\ [][NextCollection]_vars

(***************************************************************************)
(* POST /api/users and GET /api/schedules, and a specification in which    *)
(* the admin creates users of any role, entries are created for any        *)
(* teacher_id, users are deleted and the two listings are read             *)
(***************************************************************************)
MinUsernameLen == 3
MaxUsernameLen == 50
MinPasswordLen == 6

\* re.match(r'^[a-zA-Z0-9_-]+$', username)
UsernameChars ==
    LET LowerCase ==
            <<"a", "b", "c", "d", "e", "f", "g", "h", "i", "j", "k", "l", "m", "n", "o", "p", "q", "r", "s", "t", "u", "v", "w", "x", "y", "z">>
        UpperCase ==
            <<"A", "B", "C", "D", "E", "F", "G", "H", "I", "J", "K", "L", "M", "N", "O", "P", "Q", "R", "S", "T", "U", "V", "W", "X", "Y", "Z">>
    IN  {LowerCase[i] : i \in 1..Len(LowerCase)} \cup {UpperCase[i] : i \in 1..Len(UpperCase)}
            \cup {Digits[i] : i \in 1..Len(Digits)} \cup {"_", "-"}

validate_username(username) ==
    /\ Len(username) >= MinUsernameLen
    /\ Len(username) <= MaxUsernameLen
    /\ \A i \in 1..Len(username) : username[i] \in UsernameChars

validate_password(password) == Len(password) >= MinPasswordLen

UserCreate(username, password, name, role) ==
    [username |-> username, password |-> password, name |-> name, role |-> role]

\* the role of the request is stored as it is
create_user(caller, user_data, us, used) ==
    LET username == sanitize_input(user_data.username)
        name     == sanitize_input(user_data.name)
    IN  IF caller = Anonymous THEN [status |-> 401, detail |-> NotAuthenticated, users |-> us]
        ELSE IF caller.role # "admin" THEN [status |-> 403, detail |-> AdminRequired, users |-> us]
        ELSE IF ~validate_username(username)
        THEN [status |-> 400, detail |-> <<"Invalid username format">>, users |-> us]
        ELSE IF ~validate_password(user_data.password)
        THEN [status |-> 400, detail |-> <<"Password must be at least 6 characters">>, users |-> us]
        ELSE IF \E u \in us : u.username = username
        THEN [status |-> 400, detail |-> <<"Username already exists">>, users |-> us]
        ELSE [status |-> 200, detail |-> NoDetail,
              users |-> us \cup {User(uuid4(used), username, name, user_data.role)}]

\* teacher_id is the query parameter: None, or an id; the rows are listed in
\* the order of their ids
get_schedules(caller, teacher_id, ss) ==
    LET rows == IF caller.role = "teacher"
                THEN {e \in ss : e.teacher_id = caller.id}
                ELSE IF SuppliedId(teacher_id)
                THEN {e \in ss : e.teacher_id = Value(teacher_id)}
                ELSE ss
    IN  IF caller = Anonymous THEN [status |-> 401, detail |-> NotAuthenticated]
        ELSE [status |-> 200, detail |-> SetToSeqById(rows)]

CreateUser(caller, user_data) ==
    /\ Serving
    /\ LET r == create_user(caller, user_data, users, UsedIds(users, schedules, changelogs))
       IN  /\ users' = r.users
           /\ last' = Reply("create_user", caller, user_data, r.status, r.detail)
    /\ handled' = handled + 1
    /\ UNCHANGED <<schedules, changelogs, settings, boot, workers, writer, conn,
                   requests, clock, admitted, admitted_logins>>

GetSchedules(caller, teacher_id) ==
    /\ Serving
    /\ LET r == get_schedules(caller, teacher_id, schedules)
       IN  last' = Reply("schedules", caller, [teacher_id |-> teacher_id], r.status, r.detail)
    /\ handled' = handled + 1
    /\ UNCHANGED <<users, schedules, changelogs, settings, boot, workers, writer, conn,
                   requests, clock, admitted, admitted_logins>>

\* the seeded database, as it is or after two updates by the admin
InitUsers ==
    \E n \in {0, 2} :
       LET db == AfterUpdates(1, n, [status |-> 200, schedules |-> Seeded.schedules,
                                     changelogs |-> <<>>])
       IN  /\ users = Seeded.users
           /\ schedules = db.schedules
           /\ changelogs = db.changelogs
           /\ settings = Seeded.settings
           /\ boot = NumStartupHandlers
           /\ handled = 0
           /\ last = Reply("startup", Anonymous, <<>>, 200, NoDetail)
           /\ workers = [w \in Workers |-> IdleWorker]
           /\ writer = 0
           /\ conn = IdleConn
           /\ requests = [key \in Keys |-> <<>>]
           /\ clock = 0
           /\ admitted = [key \in Keys |-> <<>>]
           /\ admitted_logins = [key \in Keys |-> <<>>]

NextUsers ==
    \/ \E caller \in Callers,
          username \in {<<"t", "_", "n", "e", "w">>, t_sagnik, <<"a", " ", "b">>},
          password \in {<<"s", "e", "c", "r", "e", "t">>, <<"a", "b", "c">>},
          role \in {"teacher", "student"} :
            CreateUser(caller, UserCreate(username, password, <<"N", "e", "w">>, role))
    \* requests for the teachers, and one whose teacher_id is the id of no user
    \/ \E caller \in Callers,
          sd \in {ScheduleCreate(t.id, t.name, Tuesday, 1, Mathematics, Grade10A) :
                      t \in {u \in users : u.role = "teacher"}}
                 \cup {ScheduleCreate(0, <<"N", "e", "w">>, Tuesday, 1, Mathematics, Grade10A)} :
            CreateSchedule(caller, sd)
    \/ \E caller \in Callers, id \in UserIdInputs : DeleteUser(caller, id)
    \/ \E caller \in Callers, tid \in TeacherIdInputs : GetSchedules(caller, tid)
    \/ \E caller \in Callers, tid \in TeacherIdInputs : GetChangelogs(caller, tid)

SpecUsers == InitUsers /\ [][NextUsers]_vars

(***************************************************************************)
(* Properties                                                              *)
(***************************************************************************)
SameSlot(a, b) == a.day = b.day /\ a.period = b.period

\* I1 and I2 of a schedules table
ClassUnique(ss) ==
    \A a, b \in ss : a.id # b.id => ~(SameSlot(a, b) /\ a.class_name = b.class_name)

TeacherUnique(ss) ==
    \A a, b \in ss : a.id # b.id => ~(SameSlot(a, b) /\ a.teacher_id = b.teacher_id)

\* the step is the handling of one request by the named handler
Handled(op) == handled' = handled + 1 /\ last'.op = op

ByAdmin(l) == \E u \in users : u.id = l.caller /\ u.role = "admin"

\* the entry create_schedule builds from a request: subject and class_name
\* are the sanitised texts, day, period and teacher_id are as submitted
CandidateClass(sd) == sanitize_input(sd.class_name)

ClassBooked(ss, sd) ==
    \E e \in ss : e.day = sd.day /\ e.period = sd.period /\ e.class_name = CandidateClass(sd)

TeacherBooked(ss, sd) ==
    \E e \in ss : e.day = sd.day /\ e.period = sd.period /\ e.teacher_id = sd.teacher_id

\* C1: in every reachable state no two distinct schedule entries share
\* (day, period, class_name).
C1_ClassUniqueness == ClassUnique(schedules)

\* C2: in every reachable state no two distinct schedule entries share
\* (day, period, teacher_id).
C2_TeacherUniqueness == TeacherUnique(schedules)

\* a create or an import has added a second entry of a teacher
C2_Witness ==
    /\ last.op \in {"create", "import"}
    /\ last.status = 200
    /\ \E a, b \in schedules : a.id # b.id /\ a.teacher_id = b.teacher_id

\* C3: of two create_schedule requests for the same (day, period, class_name)
\* or the same (day, period, teacher_id) that both got past the role check,
\* at most one commits, and when one commits the other gets a conflict.
C3_ConcurrentCreatesExclusive ==
    \A w1, w2 \in Workers :
        LET a == workers[w1]
            b == workers[w2]
        IN  ( /\ w1 # w2
              /\ a.pc = "done" /\ b.pc = "done"
              /\ a.status \notin {401, 403} /\ b.status \notin {401, 403}
              /\ a.sd.day = b.sd.day /\ a.sd.period = b.sd.period
              /\ (a.sd.class_name = b.sd.class_name \/ a.sd.teacher_id = b.sd.teacher_id)
              /\ a.status = 200 )
            => ( /\ b.status = 400
                 /\ b.detail \in {ClassConflictDetail, TeacherConflictDetail(b.sd.teacher_name)} )

\* C4: an update_schedule call made in a state where no two entries share
\* (day, period, class_name) or (day, period, teacher_id) ends in such a
\* state, whether it succeeds or is rejected.
C4_UpdatePreservesUniqueness ==
    [][ (Handled("update") /\ ClassUnique(schedules) /\ TeacherUnique(schedules))
          => (ClassUnique(schedules') /\ TeacherUnique(schedules')) ]_vars

\* C5: an admin's create_schedule whose candidate matches an existing entry on
\* (day, period, class_name), whoever its teacher is, is rejected with the
\* class conflict and leaves the schedules and changelogs tables unchanged.
C5_ClassConflictRejected ==
    [][ (Handled("create") /\ ByAdmin(last') /\ ClassBooked(schedules, last'.req))
          => ( /\ last'.status = 400
               /\ last'.detail = ClassConflictDetail
               /\ schedules' = schedules
               /\ changelogs' = changelogs ) ]_vars

\* the class of the rejected candidate is booked by another teacher, and the
\* candidate's own teacher is free in the slot
C5_Witness ==
    /\ last.op = "create"
    /\ last.detail = ClassConflictDetail
    /\ ClassBooked(schedules, last.req)
    /\ ~TeacherBooked(schedules, last.req)

\* C6: an admin's create_schedule whose candidate matches an existing entry on
\* (day, period, teacher_id), its class_name being free in that slot, is
\* rejected with the teacher conflict and leaves both tables unchanged.
C6_TeacherConflictRejected ==
    [][ ( /\ Handled("create") /\ ByAdmin(last')
          /\ TeacherBooked(schedules, last'.req) /\ ~ClassBooked(schedules, last'.req) )
          => ( /\ last'.status = 400
               /\ last'.detail = TeacherConflictDetail(last'.req.teacher_name)
               /\ schedules' = schedules
               /\ changelogs' = changelogs ) ]_vars

C6_Witness ==
    /\ last.op = "create"
    /\ last.detail = TeacherConflictDetail(last.req.teacher_name)
    /\ TeacherBooked(schedules, last.req)
    /\ ~ClassBooked(schedules, last.req)

\* C7: an admin's create_schedule whose candidate matches no entry on
\* (day, period, class_name) and none on (day, period, teacher_id) succeeds,
\* adds exactly one entry, with the submitted teacher_id, day and period, and
\* leaves every other entry unchanged.
C7_NoFalseConflict ==
    [][ ( /\ Handled("create") /\ ByAdmin(last')
          /\ ~ClassBooked(schedules, last'.req) /\ ~TeacherBooked(schedules, last'.req) )
          => ( /\ last'.status = 200
               /\ changelogs' = changelogs
               /\ \E e \in schedules' :
                     /\ schedules' = schedules \cup {e}
                     /\ \A s \in schedules : s.id # e.id
                     /\ e.teacher_id = last'.req.teacher_id
                     /\ e.day = last'.req.day
                     /\ e.period = last'.req.period ) ]_vars

\* a create has succeeded while the same teacher and the same class were
\* booked in another period of that day and in the same period of another day
C7_Witness ==
    /\ last.op = "create"
    /\ last.status = 200
    /\ \E e \in schedules :
          /\ e.teacher_id = last.req.teacher_id /\ e.class_name = CandidateClass(last.req)
          /\ e.day = last.req.day /\ e.period # last.req.period
    /\ \E e \in schedules :
          /\ e.teacher_id = last.req.teacher_id /\ e.class_name = CandidateClass(last.req)
          /\ e.day # last.req.day /\ e.period = last.req.period

\* C8: an admin's create_schedule whose candidate has both its class and its
\* teacher booked in the slot reports the class conflict, never the teacher
\* conflict.
C8_ClassConflictFirst ==
    [][ ( /\ Handled("create") /\ ByAdmin(last')
          /\ ClassBooked(schedules, last'.req) /\ TeacherBooked(schedules, last'.req) )
          => ( /\ last'.detail = ClassConflictDetail
               /\ last'.detail # TeacherConflictDetail(last'.req.teacher_name) ) ]_vars

\* the rejected candidate's class is booked by one entry and its teacher by
\* another
C8_Witness ==
    /\ last.op = "create"
    /\ last.status = 400
    /\ \E c, t \in schedules :
          /\ c.id # t.id
          /\ c.day = last.req.day /\ c.period = last.req.period
          /\ c.class_name = CandidateClass(last.req) /\ c.teacher_id # last.req.teacher_id
          /\ SameSlot(c, t)
          /\ t.teacher_id = last.req.teacher_id /\ t.class_name # CandidateClass(last.req)

\* the stored subject or class_name of some entry differs across the step
StoredValueChanged ==
    \E a \in schedules, b \in schedules' :
        a.id = b.id /\ (a.subject # b.subject \/ a.class_name # b.class_name)

\* '<subject> - <class_name>' of a stored entry
SubjectDashClass(e) == e.subject \o <<" ", "-", " ">> \o e.class_name

\* C9: an update_schedule call inserts a changelog record if and only if the
\* entry's stored subject or class_name after the call differs from the one
\* before it: either nothing changed and no record is added, or something
\* changed and exactly one record is added.
C9_ChangelogIffChanged ==
    [][ Handled("update")
          => \/ ~StoredValueChanged /\ changelogs' = changelogs
             \/ /\ StoredValueChanged
                /\ Len(changelogs') = Len(changelogs) + 1
                /\ SubSeq(changelogs', 1, Len(changelogs)) = changelogs ]_vars

\* C10: an update_schedule call that changes subject and/or class_name adds
\* exactly one changelog record, whose old_value is '<subject> - <class_name>'
\* of the entry as stored before the call and whose new_value is that of the
\* entry as stored after it.
C10_ChangelogValues ==
    [][ Handled("update")
          => \A a \in schedules, b \in schedules' :
                (a.id = b.id /\ (a.subject # b.subject \/ a.class_name # b.class_name))
                  => /\ Len(changelogs') = Len(changelogs) + 1
                     /\ SubSeq(changelogs', 1, Len(changelogs)) = changelogs
                     /\ changelogs'[Len(changelogs')].schedule_id = a.id
                     /\ changelogs'[Len(changelogs')].old_value = SubjectDashClass(a)
                     /\ changelogs'[Len(changelogs')].new_value = SubjectDashClass(b) ]_vars

\* the entry a request names, in a schedules table
Target(ss, l) == {e \in ss : e.id = l.req.schedule_id}

\* the update request supplies exactly the stored subject and class_name
Resubmits(ss, l) ==
    \E e \in Target(ss, l) :
        /\ l.req.update_data.subject = Some(e.subject)
        /\ l.req.update_data.class_name = Some(e.class_name)

\* C11: an update_schedule call whose subject and class_name are identical to
\* the entry's stored values adds no changelog record, each time it is made.
C11_ResubmitAddsNoChangelog ==
    [][ (Handled("update") /\ Resubmits(schedules, last')) => changelogs' = changelogs ]_vars

\* an admin's update with the stored values went through, and no changelog
\* record exists
C11_Witness ==
    /\ last.op = "update"
    /\ last.status = 200
    /\ Resubmits(schedules, last)
    /\ \E e \in Target(schedules, last) : e.subject # <<>> /\ e.class_name # <<>>
    /\ changelogs = <<>>

\* C12: the committed changelogs table gains a record of an update_schedule
\* call only in the step that also commits the call's field update to the
\* schedules table; a call that fails after its changelog insert and before
\* its commit leaves both committed tables as they were.
C12_ChangelogCommitsWithUpdate ==
    [][ /\ (changelogs' # changelogs)
           => /\ Len(changelogs') = Len(changelogs) + 1
              /\ SubSeq(changelogs', 1, Len(changelogs)) = changelogs
              /\ conn.pc = "commit"
              /\ schedules' = (schedules \ {ConnExisting}) \cup
                                 {ApplyUpdate(ConnExisting, conn.update_data)}
              /\ changelogs'[Len(changelogs')].schedule_id = conn.schedule_id
        /\ (conn.pc \in {"update", "commit"} /\ conn'.pc = "idle" /\ last'.status = 500)
           => (changelogs' = changelogs /\ schedules' = schedules) ]_vars

\* an update failed with its changelog record inserted but not committed, after
\* an earlier update had committed its record
C12_Witness ==
    /\ last.op = "update"
    /\ last.status = 500
    /\ conn.pc = "idle"
    /\ Len(changelogs) = 1
    /\ HasChanges(last.req.update_data,
                  CHOOSE e \in schedules : e.id = last.req.schedule_id)

\* no other entry of the table is in e's slot with e's class_name or e's teacher
AloneInSlot(ss, e) ==
    \A o \in ss : (o.id # e.id /\ SameSlot(o, e))
                     => (o.class_name # e.class_name /\ o.teacher_id # e.teacher_id)

\* the update request leaves the class_name of e in place
KeepsClass(l, e) ==
    \/ IsNone(l.req.update_data.class_name)
    \/ l.req.update_data.class_name = Some(e.class_name)

IsConflict(l) == l.status = 400

\* C13: an admin's update_schedule of an entry that no other entry clashes with
\* (no other entry in its slot has its class_name or its teacher_id), leaving
\* its class_name in place, is never rejected with a conflict.
C13_NoSelfConflict ==
    [][ (Handled("update") /\ ByAdmin(last'))
          => \A e \in Target(schedules, last') :
                (AloneInSlot(schedules, e) /\ KeepsClass(last', e)) => ~IsConflict(last') ]_vars

\* C14: an update_schedule call that supplies only a subject is never rejected
\* with a conflict, whatever other entries are in the slot.
C14_SubjectOnlyExempt ==
    [][ ( /\ Handled("update")
          /\ ~IsNone(last'.req.update_data.subject)
          /\ IsNone(last'.req.update_data.class_name) )
          => ~IsConflict(last') ]_vars

ByTeacher(l) == \E u \in users : u.id = l.caller /\ u.role = "teacher"

\* C15: a caller with role teacher who requests the changelogs gets only
\* records whose teacher_id is the caller's own id, whatever the teacher_id
\* parameter is (absent, the caller's id, another teacher's id).
C15_TeacherSeesOwnChangelogs ==
    [][ (Handled("changelogs") /\ ByTeacher(last'))
          => /\ last'.status = 200
             /\ \A i \in 1..Len(last'.detail) : last'.detail[i].teacher_id = last'.caller ]_vars

\* a teacher asked for another teacher's records, which exist
C15_Witness ==
    /\ last.op = "changelogs"
    /\ ByTeacher(last)
    /\ last.status = 200
    /\ SuppliedId(last.req.teacher_id)
    /\ Value(last.req.teacher_id) # last.caller
    /\ \E i \in 1..Len(changelogs) : changelogs[i].teacher_id = Value(last.req.teacher_id)

AdminOnlyOps == {"create", "update", "delete", "import", "demo_load", "clear"}

\* C16: a create, update, delete, CSV import, demo-load or clear request from
\* a caller who is not authenticated, or whose role is not admin, is rejected
\* with 401 or 403 and changes neither the schedules nor the changelogs table.
C16_OnlyAdminWrites ==
    [][ (handled' = handled + 1 /\ last'.op \in AdminOnlyOps /\ ~ByAdmin(last'))
          => /\ last'.status = (IF last'.caller = Anonymous.id THEN 401 ELSE 403)
             /\ schedules' = schedules
             /\ changelogs' = changelogs ]_vars

\* a teacher's request to delete an existing entry of a table that holds a
\* changelog record was turned down
C16_Witness ==
    /\ last.op = "delete"
    /\ ByTeacher(last)
    /\ last.status = 403
    /\ Target(schedules, last) # {}
    /\ changelogs # <<>>

\* the bulk administrative purges: clear-schedules and demo load
PurgeOps == {"clear", "demo_load"}

IsPrefix(p, q) == Len(p) <= Len(q) /\ SubSeq(q, 1, Len(p)) = p

\* C17: a changelog record, once inserted, is never modified, and only the
\* bulk purge operations remove it: every other step keeps all the records
\* there were, unchanged and in place.
C17_ChangelogsImmutable ==
    [][ (last'.op \notin PurgeOps) => IsPrefix(changelogs, changelogs') ]_vars

\* C18: update_schedule changes nothing but the subject and class_name of the
\* entry it names, and of these only the ones the request supplies: the
\* entry's id, teacher_id, teacher_name, day and period stay, a field absent
\* from the request keeps its stored value, and every other entry is unchanged.
C18_UpdateFrame ==
    [][ Handled("update")
          => /\ {e.id : e \in schedules'} = {e.id : e \in schedules}
             /\ \A e \in schedules : e.id # last'.req.schedule_id => e \in schedules'
             /\ \A e \in Target(schedules, last'), f \in Target(schedules', last') :
                   /\ f.teacher_id = e.teacher_id
                   /\ f.teacher_name = e.teacher_name
                   /\ f.day = e.day
                   /\ f.period = e.period
                   /\ IsNone(last'.req.update_data.subject) => f.subject = e.subject
                   /\ IsNone(last'.req.update_data.class_name) => f.class_name = e.class_name ]_vars

\* an update that supplied only the subject went through on an entry whose
\* stored class_name sanitising would alter, next to another entry
C18_Witness ==
    /\ last.op = "update"
    /\ last.status = 200
    /\ ~IsNone(last.req.update_data.subject)
    /\ IsNone(last.req.update_data.class_name)
    /\ \E e \in Target(schedules, last) :
          /\ e.subject = Value(last.req.update_data.subject)
          /\ sanitize_input(e.class_name) # e.class_name
    /\ Cardinality(schedules) > 1

\* C19: update_schedule and delete_schedule called by an admin with a
\* schedule_id that no entry has report 404 'Schedule not found' and leave the
\* schedules and changelogs tables unchanged.
C19_MissingScheduleReported ==
    [][ ( /\ handled' = handled + 1 /\ last'.op \in {"update", "delete"}
          /\ ByAdmin(last')
          /\ Target(schedules, last') = {} )
          => /\ last'.status = 404
             /\ last'.detail = ScheduleNotFound
             /\ schedules' = schedules
             /\ changelogs' = changelogs ]_vars

\* the admin asked to delete an entry that does not exist, with entries and a
\* changelog record in the tables
C19_Witness ==
    /\ last.op = "delete"
    /\ ByAdmin(last)
    /\ last.status = 404
    /\ Target(schedules, last) = {}
    /\ schedules # {}
    /\ changelogs # <<>>

\* the attribute ranges of a schedule entry
ValidEntry(e) ==
    /\ e.day \in valid_days
    /\ e.period \in MinPeriod..MaxValidPeriod
    /\ e.subject # <<>>
    /\ e.class_name # <<>>

\* C20: every stored schedule entry has its day among Monday..Friday, its
\* period in 1..8 and a non-empty subject and class_name; a create request
\* outside these ranges is rejected and stores nothing.
C20_StoredEntriesValid ==
    [][ /\ \A e \in schedules' : ValidEntry(e)
        /\ (Handled("create") /\ ~ValidEntry(last'.req))
              => (last'.status # 200 /\ schedules' = schedules) ]_vars

\* the records of a changelogs table
Records(cs) == {cs[i] : i \in 1..Len(cs)}

\* C21: the changelog record an update_schedule call creates carries the
\* schedule_id, teacher_id, teacher_name, day and period of the entry as the
\* call read it, and the name of the admin who made the call as changed_by;
\* no later step changes a record that is kept.
C21_ChangelogIdentity ==
    [][ /\ (Handled("update") /\ Len(changelogs') > Len(changelogs))
           => \E e \in Target(schedules, last'), u \in users :
                 LET c == changelogs'[Len(changelogs')]
                 IN  /\ u.id = last'.caller
                     /\ c.schedule_id = e.id
                     /\ c.teacher_id = e.teacher_id
                     /\ c.teacher_name = e.teacher_name
                     /\ c.day = e.day
                     /\ c.period = e.period
                     /\ c.changed_by = u.name
        /\ \A c \in Records(changelogs), d \in Records(changelogs') : c.id = d.id => c = d ]_vars

\* the entry a changelog record refers to has been deleted since, and the
\* record is still there
C21_Witness ==
    /\ last.op = "delete"
    /\ last.status = 200
    /\ \E c \in Records(changelogs) : c.schedule_id = last.req.schedule_id

\* the response is one of the two schedule conflicts
IsConflictDetail(l) ==
    \/ l.detail = ClassConflictDetail
    \/ \E name \in Interpolated(l.detail) : l.detail = TeacherConflictDetail(name)

\* C22: a schedule conflict on create or update is answered with the conflict
\* status 409, not-found with 404 and a forbidden role with 403.
C22_ConflictStatus ==
    [][ (handled' = handled + 1 /\ last'.op \in {"create", "update"})
          => /\ IsConflictDetail(last') => last'.status = HTTP_409_CONFLICT
             /\ last'.detail = ScheduleNotFound => last'.status = 404
             /\ last'.detail = AdminRequired => last'.status = 403 ]_vars

\* C23: every conflict outcome of create_schedule and update_schedule names
\* the blocking resource: it carries the subject, and the teacher or the
\* class, of an existing entry that occupies the slot.
C23_ConflictNamesBlocker ==
    [][ (handled' = handled + 1 /\ last'.op \in {"create", "update"} /\ IsConflictDetail(last'))
          => \E e \in schedules :
                /\ e.subject \in Interpolated(last'.detail)
                /\ \/ e.teacher_name \in Interpolated(last'.detail)
                   \/ e.class_name \in Interpolated(last'.detail) ]_vars

\* C24: an admin who passes teacher_id = X receives exactly the changelog
\* records of X, and an admin who passes no teacher_id receives every
\* changelog record, however many are stored.
C24_AdminSeesAllRecords ==
    [][ (Handled("changelogs") /\ ByAdmin(last') /\ last'.status = 200)
          => LET want == IF SuppliedId(last'.req.teacher_id)
                         THEN {c \in Records(changelogs) :
                                 c.teacher_id = Value(last'.req.teacher_id)}
                         ELSE Records(changelogs)
             IN  /\ Records(last'.detail) = want
                 /\ Len(last'.detail) = Cardinality(want) ]_vars

\* the position of a record in the changelogs table, which is in the order
\* the update_schedule calls inserted the records
Position(cs, c) == CHOOSE i \in 1..Len(cs) : cs[i] = c

\* C25: get_changelogs returns the records newest first: of two returned
\* records, the one the later update_schedule call created comes first.
C25_NewestFirst ==
    [][ (Handled("changelogs") /\ last'.status = 200)
          => LET pos == [i \in 1..Len(last'.detail) |-> Position(changelogs, last'.detail[i])]
             IN  \A i, j \in 1..Len(last'.detail) : i < j => pos[i] > pos[j] ]_vars

C25_Witness ==
    /\ last.op = "changelogs"
    /\ last.status = 200
    /\ Len(last.detail) >= 3
    /\ \E i \in 1..(Len(last.detail) - 1) : last.detail[i].teacher_id # last.detail[i + 1].teacher_id

\* C26: delete_schedule by an admin on an existing id removes exactly that
\* entry and leaves the others as they were, and a create for the freed
\* day, period, class_name and teacher_id then succeeds.
C26_DeleteFreesSlot ==
    [][ (Handled("delete") /\ ByAdmin(last') /\ Target(schedules, last') # {})
          => /\ last'.status = 200
             /\ schedules' = schedules \ Target(schedules, last')
             /\ \A e \in Target(schedules, last'), a \in users :
                   a.id = last'.caller
                     => create_schedule(a, ScheduleCreate(e.teacher_id, e.teacher_name, e.day,
                                                          e.period, e.subject, e.class_name),
                                        schedules', UsedIds(users, schedules', changelogs')).status = 200 ]_vars

\* a row as the loop reads it: stripped and sanitised fields, the period parsed
Normalised(row) ==
    [teacher_name |-> sanitize_input(Strip(row.teacher_name)),
     day |-> sanitize_input(Strip(row.day)),
     period |-> ParseInt(Strip(row.period)),
     subject |-> sanitize_input(Strip(row.subject)),
     class_name |-> sanitize_input(Strip(row.class_name))]

\* no field of the row is empty and its teacher exists
Complete(us, row) ==
    /\ \A t \in {Normalised(row).teacher_name, Normalised(row).day, Strip(row.period),
                 Normalised(row).subject, Normalised(row).class_name} : t # <<>>
    /\ \E u \in us : u.role = "teacher" /\ u.name = Normalised(row).teacher_name

\* two rows ask for the same class, or the same teacher, in the same slot
RowsCollide(a, b) ==
    /\ IsInt(Strip(a.period)) /\ IsInt(Strip(b.period))
    /\ SameSlot(Normalised(a), Normalised(b))
    /\ \/ Normalised(a).class_name = Normalised(b).class_name
       \/ Normalised(a).teacher_name = Normalised(b).teacher_name

\* row i of the file (numbered from 2 in the report) has an error of one of the kinds
Reported(l, i, kinds) ==
    \E k \in 1..Len(l.detail.errors) :
        l.detail.errors[k][1] = i + 1 /\ l.detail.errors[k][2] \in kinds

ConflictKinds == {"Class conflict", "Teacher conflict"}
ErrorKinds == ConflictKinds \cup {"Missing required fields", "Teacher not found",
                                  "Invalid period", "Invalid day"}

\* the entries the step added to the table that hold the values of the row
AddedFor(row) ==
    {e \in schedules' \ schedules :
        /\ e.teacher_name = Normalised(row).teacher_name
        /\ e.day = Normalised(row).day
        /\ e.period = Normalised(row).period
        /\ e.subject = Normalised(row).subject
        /\ e.class_name = Normalised(row).class_name}

C28_ImportRowIndependent ==
    [][ (Handled("import") /\ ByAdmin(last'))
          => /\ last'.status = 200
             /\ schedules \subseteq schedules'
             /\ last'.detail.imported_count = Cardinality(schedules' \ schedules)
             /\ Len(last'.req) <= MaxReportedErrors
                  => last'.detail.imported_count + Len(last'.detail.errors) = Len(last'.req)
             /\ \A i \in 1..Len(last'.req) :
                   Reported(last', i, ErrorKinds) \/ AddedFor(last'.req[i]) # {} ]_vars

C28_Witness ==
    /\ last.op = "import"
    /\ last.status = 200
    /\ Len(last.req) = 2
    /\ Reported(last, 1, {"Invalid period"})
    /\ ~Reported(last, 2, ErrorKinds)
    /\ last.detail.imported_count = 1

\* C29: an admin's POST /demo/load-schedules succeeds, and afterwards the
\* schedules table holds exactly the demo timetable of the existing teachers
\* and the changelogs table is empty.
C29_DemoLoadSucceeds ==
    [][ (Handled("demo_load") /\ ByAdmin(last'))
          => /\ last'.status = 200
             /\ changelogs' = <<>>
             /\ schedules' = load_demo_schedules(users, {}, <<>>, FALSE,
                                                 UsedIds(users, schedules, changelogs)).schedules ]_vars

\* C30: for every client key, at most 30 of the non-login requests admitted
\* by is_allowed arrived within any span shorter than 60 seconds, and the
\* list kept for the key never holds more than 30 timestamps.
C30_RateLimit ==
    \A key \in Keys :
       /\ Len(requests[key]) <= max_requests
       \* more than max_requests admitted requests, from the i-th to the j-th,
       \* do not lie within the window
       /\ \A i \in 1..Len(admitted[key]) :
             \A j \in (i + max_requests)..Len(admitted[key]) :
                admitted[key][j] - admitted[key][i] >= window_seconds

C30_Witness ==
    /\ last.op = "rate_limit"
    /\ last.status = 429
    /\ ~last.req.is_login
    /\ Len(requests[last.req.client_ip]) = max_requests
    /\ Len(admitted[last.req.client_ip]) > max_requests

\* C31: for every client key, at most 5 of the login requests admitted by
\* is_allowed arrived within any span shorter than 60 seconds.
C31_LoginRateLimit ==
    \A key \in Keys :
       \A i, j \in 1..Len(admitted_logins[key]) :
          (i <= j /\ admitted_logins[key][j] - admitted_logins[key][i] < window_seconds)
            => j - i + 1 <= login_max_requests

C31_Witness ==
    /\ last.op = "rate_limit"
    /\ last.status = 429
    /\ last.req.is_login
    /\ Len(admitted_logins[last.req.client_ip]) > login_max_requests

\* the arrival times of every request of the key that was admitted
AdmittedTimes(key) ==
    {admitted[key][i] : i \in 1..Len(admitted[key])}
        \cup {admitted_logins[key][i] : i \in 1..Len(admitted_logins[key])}

\* the step is the middleware handling a request
Limited == last' # last /\ last'.op = "rate_limit"

\* C32: a refused request is not recorded and does not prolong the block: a
\* request that arrives 60 seconds or more after the key's most recent
\* admitted request is admitted, however many were refused in between.
C32_RefusalNotRecorded ==
    [][ Limited
          => /\ last'.status = 429
                  => /\ admitted' = admitted /\ admitted_logins' = admitted_logins
                     /\ Len(requests'[last'.req.client_ip]) <= Len(requests[last'.req.client_ip])
                     /\ \A t \in {requests'[last'.req.client_ip][i] :
                                     i \in 1..Len(requests'[last'.req.client_ip])} :
                           t \in AdmittedTimes(last'.req.client_ip)
             /\ (\A t \in AdmittedTimes(last'.req.client_ip) : clock - t >= window_seconds)
                  => last'.status = 0 ]_vars

C32_Witness ==
    /\ last.op = "rate_limit"
    /\ last.status = 0
    /\ last.req.after_refusal
    /\ Len(requests[last.req.client_ip]) = 1
    /\ \E t \in AdmittedTimes(last.req.client_ip) : clock - t >= window_seconds

\* the login requests of the key admitted in the 60 seconds before now
RecentLogins(key) ==
    {i \in 1..Len(admitted_logins[key]) : clock - admitted_logins[key][i] < window_seconds}

\* C37: a login request is admitted whenever fewer than 5 login requests of
\* the key were admitted in the preceding 60 seconds, whatever the number of
\* non-login requests of the key in that window.
C37_LoginBudgetIndependent ==
    [][ (Limited /\ last'.req.is_login
           /\ Cardinality(RecentLogins(last'.req.client_ip)) < login_max_requests)
          => last'.status = 0 ]_vars

\* the step is a run of a startup handler
Started_Again == last'.op = "startup" /\ <<boot, last>>' # <<boot, last>>

\* the usernames init_demo_data creates
SeededUsernames ==
    {admin123} \cup {demo_teachers[i].username : i \in 1..NumDemoTeachers}

\* C33: a run of the startup sequence on a database that has been initialised
\* before (its settings row exists), the second of the two registered
\* handlers included, adds no user, settings row or schedule entry; admin123
\* and each demo teacher username exist once, and demo schedules are
\* inserted only into an empty schedules table.
C33_StartupIdempotent ==
    [][ Started_Again
          => /\ settings => /\ users' = users
                            /\ settings' = settings
                            /\ schedules' = schedules
             /\ last'.status = 200
                  => \A name \in SeededUsernames :
                        Cardinality({u \in users' : u.username = name}) = 1
             /\ schedules' # schedules => schedules = {} ]_vars

\* C34: SQLiteCollection.delete_one removes at most one row: when several
\* rows match the query, or the query is empty, exactly one row is deleted
\* and deleted_count is at most 1.
C34_DeleteOneRemovesOne ==
    [][ (last' # last /\ last'.op = "delete_one")
          => /\ last'.detail.deleted_count <= 1
             /\ Cardinality(schedules \ schedules') <= 1
             /\ Matching(schedules, last'.req) # {}
                  => Cardinality(schedules \ schedules') = 1 ]_vars

\* the changelog records of one schedule entry, in creation order
TrailOf(e) == SelectSeq(changelogs, LAMBDA c : c.schedule_id = e.id)

\* C35: in the changelog records of one schedule entry, taken in creation
\* order, the new_value of each record is the old_value of the next, and the
\* new_value of the latest is the entry's stored subject - class_name.
C35_AuditTrailChain ==
    \A e \in schedules :
       LET trail == TrailOf(e)
       IN  /\ \A i \in 1..(Len(trail) - 1) : trail[i].new_value = trail[i + 1].old_value
           /\ trail # <<>> => trail[Len(trail)].new_value = FormatValue(e.subject, e.class_name)

\* C36: a caller whose role is not admin, whatever the role string of the
\* user record, never receives from get_changelogs or get_schedules a record
\* whose teacher_id differs from the caller's own id.
C36_NonAdminSeesOwnOnly ==
    [][ (handled' = handled + 1 /\ last'.op \in {"changelogs", "schedules"}
           /\ last'.status = 200 /\ ~ByAdmin(last'))
          => \A i \in 1..Len(last'.detail) : last'.detail[i].teacher_id = last'.caller ]_vars

\* C38: in every reachable state the teacher_id of each schedule entry is the
\* id of an existing user.
C38_TeacherExists ==
    \A e \in schedules : \E u \in users : u.id = e.teacher_id

====
